---- MODULE Spec2Model ----
(***************************************************************************)
(* A model of pycfi (src/main.py): locating a literal query inside an EPUB  *)
(* and reporting its structural address.                                   *)
(*                                                                         *)
(* Text is a sequence of characters.  A parsed document is the pre-order   *)
(* list of the nodes below the BeautifulSoup object, each with its depth   *)
(* (1 = child of the BeautifulSoup object), its tag name, and, for a text  *)
(* node, its raw text.  Node 0 stands for the BeautifulSoup object itself, *)
(* whose name is "[document]" and which has no parent.                     *)
(***************************************************************************)
EXTENDS Integers, Sequences, FiniteSets, TLC

VARIABLES
    pc,                  \* the stage process_epub is at
    staging,             \* the temporary directory: "none", "held", "released"
    fs,                  \* the spine documents of the archive, by path
    package_children,    \* the package descriptor's tree, as far as line 47 reads it
    query,
    content_opf_path, manifest, spine, spine_files, spine_xml_position,
    result,              \* the tuple traverse_and_trace_query returned
    error,               \* the exception leaving process_epub, if any
    printed              \* the lines printed so far

vars == <<pc, staging, fs, package_children, query, content_opf_path, manifest,
          spine, spine_files, spine_xml_position, result, error, printed>>

\* ------------------------------------------------------------- bounds
MaxNodes == 4
MaxSpine == 2
MaxText == 2
MaxChildren == 3
MaxItems == 2

\* ------------------------------------------------------------- helpers
Range(s) == {s[i] : i \in DOMAIN s}

Min(S) == CHOOSE x \in S : \A y \in S : x <= y

Max(S) == CHOOSE x \in S : \A y \in S : x >= y

SeqsUpTo(S, n) == UNION {[1..k -> S] : k \in 0..n}

Reverse(s) == [i \in 1..Len(s) |-> s[Len(s) + 1 - i]]

\* ------------------------------------------------------------- text
Chars == {"a", "b"}

Texts == SeqsUpTo(Chars, MaxText) \ {<<>>}

Queries == Texts

\* the offsets at which q occurs in text (0-based)
Occurrences(text, q) ==
    {i \in 0..(Len(text) - Len(q)) : SubSeq(text, i + 1, i + Len(q)) = q}

\* Python's `q in text`
Contains(text, q) == Occurrences(text, q) # {}

\* mutant: text.rfind(q), the last occurrence
StrFind_Last(text, q) ==
    IF Occurrences(text, q) = {} THEN -1 ELSE Max(Occurrences(text, q))

\* Python's text.find(q)
StrFind(text, q) ==
    IF Occurrences(text, q) = {} THEN -1 ELSE Min(Occurrences(text, q))

\* ------------------------------------------------------------- documents
TextNode == "#text"

DocumentName == "[document]"

TagNames == {"html", "div"}

NoParent == -1

Nodes(tags, texts, maxDepth) ==
    [depth : 1..maxDepth, name : tags, text : {<<>>}]
        \cup [depth : 1..maxDepth, name : {TextNode}, text : texts]

\* nd may follow the pre-order list d: its depth is at most one more than the
\* depth of the last node, and only an element has children
MayFollow(d, nd) ==
    IF d = <<>> THEN nd.depth = 1
    ELSE LET last == d[Len(d)]
         IN  nd.depth <= last.depth + (IF last.name = TextNode THEN 0 ELSE 1)

RECURSIVE DocsOfLen(_, _, _)
DocsOfLen(tags, texts, n) ==
    IF n = 0 THEN {<<>>}
    ELSE UNION {{Append(d, nd) :
                    nd \in {x \in Nodes(tags, texts, n) : MayFollow(d, x)}} :
                d \in DocsOfLen(tags, texts, n - 1)}

DocsUpTo(tags, texts, n) == UNION {DocsOfLen(tags, texts, k) : k \in 0..n}

\* line 56: open(file_path) fails (the file is missing)
Missing == [readable |-> FALSE, failure |-> "OSError", nodes |-> <<>>]

\* line 57: file.read() fails (the bytes are not UTF-8)
Undecodable ==
    [readable |-> FALSE, failure |-> "UnicodeDecodeError", nodes |-> <<>>]

\* line 58: BeautifulSoup(content, "html.parser") rejects the markup
Unparsable ==
    [readable |-> FALSE, failure |-> "ParserRejectedMarkup", nodes |-> <<>>]

Unreadable == {Missing, Undecodable, Unparsable}

Readable(docs) ==
    {[readable |-> TRUE, failure |-> "none", nodes |-> d] : d \in docs}

\* the exception of a file that cannot be opened (it names the path),
\* decoded (it names the codec) or parsed (it names the parser)
ReadError(failure, path) ==
    IF failure = "OSError" THEN [outcome |-> "raised", type |-> failure, arg |-> path]
    ELSE IF failure = "UnicodeDecodeError"
    THEN [outcome |-> "raised", type |-> failure, arg |-> "utf-8"]
    ELSE [outcome |-> "raised", type |-> failure, arg |-> "html.parser"]

\* node.parent
ParentOf(doc, i) ==
    IF i = 0 THEN NoParent
    ELSE IF doc[i].depth = 1 THEN 0
    ELSE Max({j \in 1..(i - 1) : doc[j].depth = doc[i].depth - 1})

NameOf(doc, i) == IF i = 0 THEN DocumentName ELSE doc[i].name

\* mutant: find_previous_siblings() without the tag name
FindPreviousSiblings_AnyTag(doc, i, name) ==
    IF i = 0 THEN {}
    ELSE {j \in 1..(i - 1) : ParentOf(doc, j) = ParentOf(doc, i)}

\* node.find_previous_siblings(name)
FindPreviousSiblings(doc, i, name) ==
    IF i = 0 THEN {}
    ELSE {j \in 1..(i - 1) :
            /\ ParentOf(doc, j) = ParentOf(doc, i)
            /\ doc[j].name = name}

\* soup.find_all(string=True): the text nodes, in document order
FindAllStrings(doc) == {i \in DOMAIN doc : doc[i].name = TextNode}

\* the texts of the document's text nodes from node i on, one after the other
RECURSIVE TextFrom(_, _)
TextFrom(doc, i) ==
    IF i > Len(doc) THEN <<>>
    ELSE (IF doc[i].name = TextNode THEN doc[i].text ELSE <<>>) \o TextFrom(doc, i + 1)

\* ------------------------------------------------------------- formatting
\* "/".join(items) for a list of strings
RECURSIVE JoinSlash(_)
JoinSlash(items) ==
    IF items = <<>> THEN ""
    ELSE IF Len(items) = 1 THEN items[1]
    ELSE items[1] \o "/" \o JoinSlash(Tail(items))

\* f"{name}[{position}]"
FormatStep(step) == step.name \o "[" \o ToString(step.position) \o "]"

\* ------------------------------------------------------------- text locator
\* mutant: no break, the last text node that contains the query is kept
ElementWithQuery_Last(doc, q) ==
    LET hits == {i \in FindAllStrings(doc) : Contains(doc[i].text, q)}
    IN  IF hits = {} THEN 0 ELSE Max(hits)

\* mutant: the query is looked for in the text that runs on from the node
\* through the text nodes after it
ElementWithQuery_AcrossNodes(doc, q) ==
    LET hits == {i \in FindAllStrings(doc) : Contains(TextFrom(doc, i), q)}
    IN  IF hits = {} THEN 0 ELSE Min(hits)

\* lines 64-69: the first text node of the document that contains the query
\* (0 when the loop ends without a break: element_with_query stays None)
ElementWithQuery(doc, q) ==
    LET hits == {i \in FindAllStrings(doc) : Contains(doc[i].text, q)}
    IN  IF hits = {} THEN 0 ELSE Min(hits)

\* line 71: `if element_with_query:` is the truth value of a str
Truthy(doc, i) == i # 0 /\ Len(doc[i].text) > 0

\* mutant: every step goes into file_index
InFileIndex_All(name) == TRUE

\* line 82: the test that keeps a step out of file_index
InFileIndex(name) == name # "html"

\* mutant: file_index.append(...) in place of file_index.insert(0, ...)
RECURSIVE TraceAncestors_Appending(_, _, _)
TraceAncestors_Appending(doc, cur, acc) ==
    IF cur = NoParent THEN acc
    ELSE LET name == NameOf(doc, cur)
             element_position ==
                 Cardinality({j \in 1..(cur - 1) :
                                 /\ ParentOf(doc, j) = ParentOf(doc, cur)
                                 /\ doc[j].name = name}) + 1
         IN  TraceAncestors_Appending(doc, ParentOf(doc, cur),
                 [element_path |->
                     Append(acc.element_path,
                            [name |-> name, position |-> element_position]),
                  file_index |->
                     IF name # "html"
                     THEN Append(acc.file_index, element_position)
                     ELSE acc.file_index])

\* lines 76-87: the walk from `cur` up to the node that has no parent.
\* acc.element_path is appended to (leaf first), acc.file_index is inserted
\* into at position 0 (root first).
RECURSIVE TraceAncestors(_, _, _)
TraceAncestors(doc, cur, acc) ==
    IF cur = NoParent THEN acc
    ELSE LET name == NameOf(doc, cur)
             siblings == FindPreviousSiblings(doc, cur, name)
             element_position == Cardinality(siblings) + 1
         IN  TraceAncestors(doc, ParentOf(doc, cur),
                 [element_path |->
                     Append(acc.element_path,
                            [name |-> name, position |-> element_position]),
                  file_index |->
                     IF InFileIndex(name)
                     THEN <<element_position>> \o acc.file_index
                     ELSE acc.file_index])

\* lines 73-101: the tuple returned for a match in spine_files[idx] (idx is
\* 1-based here, the code's spine_idx + 1).  steps and index are the lists
\* element_path and file_index before they are joined into strings.
Address(files, idx, doc, node, q) ==
    LET traced == TraceAncestors(doc, ParentOf(doc, node),
                      [element_path |-> <<>>, file_index |-> <<>>])
        steps == Reverse(traced.element_path)
        match_start == StrFind(doc[node].text, q)
    IN  [outcome |-> "address",
         spine_idx |-> idx,
         total |-> Len(files),
         file_path |-> files[idx],
         element_path |-> JoinSlash([k \in 1..Len(steps) |-> FormatStep(steps[k])]),
         file_index |-> JoinSlash([k \in 1..Len(traced.file_index) |->
                                      ToString(traced.file_index[k])]),
         steps |-> steps,
         index |-> traced.file_index,
         node |-> node,
         match_start |-> match_start,
         match_end |-> match_start + Len(q)]

\* line 104
NotFound == [outcome |-> "not_found", match_start |-> -1, match_end |-> -1]

\* an exception leaving a stage
Raised(type, arg) == [outcome |-> "raised", type |-> type, arg |-> arg]

\* lines 55-104: the loop over the spine files, from position idx on
RECURSIVE TraverseFrom(_, _, _, _)
TraverseFrom(files, disk, q, idx) ==
    IF idx > Len(files) THEN NotFound
    ELSE LET file == disk[files[idx]]
             doc == file.nodes
             element_with_query == ElementWithQuery(doc, q)
         IN  IF ~file.readable THEN ReadError(file.failure, files[idx])
             ELSE IF Truthy(doc, element_with_query)
                  THEN Address(files, idx, doc, element_with_query, q)
                  ELSE TraverseFrom(files, disk, q, idx + 1)

\* mutant: `return` inside the loop, the scan ends with the first document
traverse_first_document_only(files, disk, q) ==
    IF files = <<>> THEN NotFound
    ELSE LET r == TraverseFrom(<<files[1]>>, disk, q, 1)
         IN  IF r.outcome = "address" THEN [r EXCEPT !.total = Len(files)] ELSE r

traverse_and_trace_query(files, disk, q) == TraverseFrom(files, disk, q, 1)

\* ------------------------------------------------------------- paths
\* a path is the sequence of its components
TempDir == <<"tmp">>

\* os.path.join(base, rel) for a relative rel
PathJoin(base, rel) == base \o rel

\* os.path.dirname(path)
Dirname(path) == SubSeq(path, 1, Len(path) - 1)

FullPath == <<"OEBPS", "content.opf">>

Hrefs == {<<"ch1.xhtml">>, <<"ch2.xhtml">>}

DocPaths == {PathJoin(Dirname(PathJoin(TempDir, FullPath)), h) : h \in Hrefs}

\* ------------------------------------------------------------- descriptors
\* the attributes of an element: a function from attribute names to values
NoAttrs == <<>>

\* tag[key]: the value, or KeyError
HasAttr(tag, key) == key \in DOMAIN tag

\* what open() and file.read() of a descriptor do: succeed, or fail as for a
\* spine document
ReadOutcomes == {"none", "OSError", "UnicodeDecodeError"}

\* META-INF/container.xml: how reading it ends, and its rootfile elements
Containers ==
    {[failure |-> "OSError", rootfiles |-> <<>>],
     [failure |-> "UnicodeDecodeError", rootfiles |-> <<>>],
     [failure |-> "none", rootfiles |-> <<>>],
     [failure |-> "none", rootfiles |-> <<NoAttrs>>],
     [failure |-> "none", rootfiles |-> <<("full-path" :> FullPath)>>]}

\* lines 15-21
find_content_opf(temp_dir, container) ==
    IF container.failure # "none"
    THEN ReadError(container.failure,
                   PathJoin(temp_dir, <<"META-INF", "container.xml">>))
    ELSE IF container.rootfiles = <<>>
    THEN Raised("TypeError", "rootfile")
    ELSE IF ~HasAttr(container.rootfiles[1], "full-path")
    THEN Raised("KeyError", "full-path")
    ELSE [outcome |-> "value",
          value |-> PathJoin(temp_dir, container.rootfiles[1]["full-path"])]

Ids == {"c1", "c2"}

MissingId == "cX"

ItemTags == {("id" :> i) @@ ("href" :> h) : i \in Ids, h \in Hrefs}
                \cup {("id" :> "c1")}

ItemrefTags == {("idref" :> i) : i \in Ids \cup {MissingId}} \cup {NoAttrs}

\* the package descriptor as parse_content_opf reads it: how reading the file
\* ends, its item elements and its itemref elements, in document order
Packages ==
    [failure : ReadOutcomes \ {"none"}, items : {<<>>}, itemrefs : {<<>>}]
        \cup [failure : {"none"},
              items : SeqsUpTo(ItemTags, MaxItems),
              itemrefs : SeqsUpTo(ItemrefTags, MaxSpine)]

\* line 29: the dict comprehension; a repeated id keeps its last href
ManifestOf(items) ==
    [i \in {items[k]["id"] : k \in DOMAIN items} |->
        items[Max({k \in DOMAIN items : items[k]["id"] = i})]["href"]]

\* lines 24-32
parse_content_opf(path, opf) ==
    LET badItems == {k \in DOMAIN opf.items :
                        ~HasAttr(opf.items[k], "id") \/ ~HasAttr(opf.items[k], "href")}
        badRefs == {k \in DOMAIN opf.itemrefs : ~HasAttr(opf.itemrefs[k], "idref")}
    IN  IF opf.failure # "none" THEN ReadError(opf.failure, path)
        ELSE IF badItems # {}
        THEN Raised("KeyError",
                    IF HasAttr(opf.items[Min(badItems)], "id") THEN "href" ELSE "id")
        ELSE IF badRefs # {} THEN Raised("KeyError", "idref")
        ELSE [outcome |-> "value",
              manifest |-> ManifestOf(opf.items),
              spine |-> [k \in DOMAIN opf.itemrefs |-> opf.itemrefs[k]["idref"]]]

\* mutant: an id the manifest does not hold is skipped
map_spine_to_files_skipping(man, sp, base_path) ==
    LET resolved == SelectSeq(sp, LAMBDA i : i \in DOMAIN man)
    IN  [outcome |-> "value",
         value |-> [k \in DOMAIN resolved |-> PathJoin(base_path, man[resolved[k]])]]

\* line 36: manifest[item_id] for every id of the spine, in order; the first
\* id the manifest does not hold raises KeyError(id)
map_spine_to_files(man, sp, base_path) ==
    LET unresolved == {k \in DOMAIN sp : sp[k] \notin DOMAIN man}
    IN  IF unresolved # {} THEN Raised("KeyError", sp[Min(unresolved)])
        ELSE [outcome |-> "value",
              value |-> [k \in DOMAIN sp |-> PathJoin(base_path, man[sp[k]])]]

ChildNames == {"metadata", "manifest", "spine", "guide"}

\* the package descriptor as get_spine_xml_position reads it: how reading the
\* file ends, whether a package element exists, and the names of its direct
\* element children
PackageTrees ==
    [failure : ReadOutcomes \ {"none"}, has_package : {FALSE}, children : {<<>>}]
        \cup {[failure |-> "none", has_package |-> FALSE, children |-> <<>>]}
        \cup [failure : {"none"}, has_package : {TRUE},
              children : SeqsUpTo(ChildNames, MaxChildren)]

\* line 49: the test that picks the child
IsSpine(name) == name = "spine"

\* mutant: idx in place of idx + 1
get_spine_xml_position_zero_based(path, tree) ==
    LET found == {idx \in DOMAIN tree.children : IsSpine(tree.children[idx])}
    IN  IF tree.failure # "none" THEN ReadError(tree.failure, path)
        ELSE IF ~tree.has_package THEN Raised("AttributeError", "find_all")
        ELSE IF found # {}
        THEN [outcome |-> "value", value |-> <<Min(found) - 1, Len(tree.children)>>]
        ELSE [outcome |-> "value", value |-> <<-1, Len(tree.children)>>]

\* lines 40-51
get_spine_xml_position(path, tree) ==
    LET package_children_ == tree.children
        found == {idx \in DOMAIN package_children_ : IsSpine(package_children_[idx])}
    IN  IF tree.failure # "none" THEN ReadError(tree.failure, path)
        ELSE IF ~tree.has_package THEN Raised("AttributeError", "find_all")
        ELSE IF found # {}
        THEN [outcome |-> "value", value |-> <<Min(found), Len(package_children_)>>]
        ELSE [outcome |-> "value", value |-> <<-1, Len(package_children_)>>]

\* ------------------------------------------------------------- state
None == [outcome |-> "none"]

NoPosition == <<0, 0>>

\* the documents of the archive that process_epub is run on
ArchiveFiles ==
    {Missing,
     Undecodable,
     Unparsable,
     [readable |-> TRUE, failure |-> "none", nodes |-> <<>>],
     [readable |-> TRUE,
      failure |-> "none",
      nodes |-> <<[depth |-> 1, name |-> "div", text |-> <<>>],
                  [depth |-> 2, name |-> TextNode, text |-> <<"a">>]>>]}

ArchiveQueries == {<<"a">>, <<"b">>}

\* the package descriptor of the archive, as far as line 47 reads it (a
\* descriptor that cannot be read fails at line 113 already)
ArchiveTrees ==
    {[failure |-> "none", has_package |-> FALSE, children |-> <<>>],
     [failure |-> "none", has_package |-> TRUE,
      children |-> <<"metadata", "manifest", "spine">>],
     [failure |-> "none", has_package |-> TRUE,
      children |-> <<"metadata", "manifest">>]}

\* how zipfile.ZipFile(epub_path) and extractall end (lines 10-11, 109-110):
\* extracted; ZipFile finds no zip file (BadZipFile), no file at all
\* (OSError) or a path with a null byte in it (ValueError); extractall meets
\* an encrypted member (RuntimeError), a compression method it does not know
\* (NotImplementedError), a deflate or LZMA stream that does not decompress
\* (zlib.error, LZMAError), a member that ends too early (EOFError), a
\* member name that does not decode (UnicodeDecodeError) or a member whose
\* name is empty (IndexError)
ZipOutcomes ==
    {"none", "BadZipFile", "OSError", "ValueError", "RuntimeError",
     "NotImplementedError", "zlib.error", "LZMAError", "EOFError",
     "UnicodeDecodeError", "IndexError"}

\* how tempfile.TemporaryDirectory() ends (lines 9, 108): the directory is
\* made, or there is no usable place to make it in (FileNotFoundError)
TempOutcomes == {"none", "OSError"}

\* process_epub and extract_epub_to_temp are the two functions that stage an
\* archive
EntryPoints == {"start", "extract_epub_to_temp"}

Init ==
    /\ pc \in EntryPoints
    /\ staging = "none"
    /\ fs \in [DocPaths -> ArchiveFiles]
    /\ package_children \in ArchiveTrees
    /\ query \in ArchiveQueries
    /\ content_opf_path = <<>>
    /\ manifest = <<>>
    /\ spine = <<>>
    /\ spine_files = <<>>
    /\ spine_xml_position = NoPosition
    /\ result = None
    /\ error = None
    /\ printed = <<>>

\* ------------------------------------------------------------- process_epub
\* mutant: the directory is removed at the end of the body only, not when an
\* exception leaves it
ExitStaging_OnSuccessOnly(st, err) == IF err = None THEN "released" ELSE st

\* the `with` statement's exit (line 108): what becomes of the directory
ExitStaging(st, err) == "released"

\* an exception leaves the body of the `with` statement
Raise(r) ==
    /\ error' = r
    /\ pc' = "cleanup"

\* line 108: tempfile.TemporaryDirectory() is entered; when the directory
\* cannot be made the call raises before the `with` body and nothing is held
Acquire ==
    /\ pc = "start"
    /\ \E made \in TempOutcomes :
        IF made = "none"
        THEN /\ staging' = "held"
             /\ pc' = "extract"
             /\ UNCHANGED error
        ELSE /\ error' = Raised(made, "tempdir")
             /\ pc' = "raised"
             /\ UNCHANGED staging
    /\ UNCHANGED <<fs, package_children, query, content_opf_path, manifest,
                   spine, spine_files, spine_xml_position, result, printed>>

\* lines 109-110: the archive is extracted, or ZipFile or extractall raises
Extract ==
    /\ pc = "extract"
    /\ \E zip \in ZipOutcomes :
        IF zip = "none" THEN pc' = "find_content_opf" /\ UNCHANGED error
        ELSE Raise(Raised(zip, "epub_path"))
    /\ UNCHANGED <<staging, fs, package_children, query, content_opf_path,
                   manifest, spine, spine_files, spine_xml_position, result,
                   printed>>

\* line 112
FindContentOpf ==
    /\ pc = "find_content_opf"
    /\ \E container \in Containers :
        LET r == find_content_opf(TempDir, container)
        IN  IF r.outcome = "raised"
            THEN Raise(r) /\ UNCHANGED content_opf_path
            ELSE /\ content_opf_path' = r.value
                 /\ pc' = "parse_content_opf"
                 /\ UNCHANGED error
    /\ UNCHANGED <<staging, fs, package_children, query, manifest, spine,
                   spine_files, spine_xml_position, result, printed>>

\* line 113
ParseContentOpf ==
    /\ pc = "parse_content_opf"
    /\ \E opf \in Packages :
        LET r == parse_content_opf(content_opf_path, opf)
        IN  IF r.outcome = "raised"
            THEN Raise(r) /\ UNCHANGED <<manifest, spine>>
            ELSE /\ manifest' = r.manifest
                 /\ spine' = r.spine
                 /\ pc' = "map_spine_to_files"
                 /\ UNCHANGED error
    /\ UNCHANGED <<staging, fs, package_children, query, content_opf_path,
                   spine_files, spine_xml_position, result, printed>>

\* lines 114-116
MapSpineToFiles ==
    /\ pc = "map_spine_to_files"
    /\ \E r \in {map_spine_to_files(manifest, spine, Dirname(content_opf_path))} :
           IF r.outcome = "raised"
           THEN Raise(r) /\ UNCHANGED spine_files
           ELSE /\ spine_files' = r.value
                /\ pc' = "get_spine_xml_position"
                /\ UNCHANGED error
    /\ UNCHANGED <<staging, fs, package_children, query, content_opf_path,
                   manifest, spine, spine_xml_position, result, printed>>

\* lines 119-121
GetSpineXmlPosition ==
    /\ pc = "get_spine_xml_position"
    /\ \E r \in {get_spine_xml_position(content_opf_path, package_children)} :
           IF r.outcome = "raised"
           THEN Raise(r) /\ UNCHANGED spine_xml_position
           ELSE /\ spine_xml_position' = r.value
                /\ pc' = "traverse"
                /\ UNCHANGED error
    /\ UNCHANGED <<staging, fs, package_children, query, content_opf_path,
                   manifest, spine, spine_files, result, printed>>

\* lines 123-131: the document scan (line 103 prints when nothing matched)
Traverse ==
    /\ pc = "traverse"
    /\ \E r \in {traverse_and_trace_query(spine_files, fs, query)} :
           IF r.outcome = "raised"
           THEN Raise(r) /\ UNCHANGED <<result, printed>>
           ELSE /\ result' = r
                /\ printed' = IF r.outcome = "not_found"
                              THEN Append(printed, "Query not found in the spine.")
                              ELSE printed
                /\ pc' = "report"
                /\ UNCHANGED error
    /\ UNCHANGED <<staging, fs, package_children, query, content_opf_path,
                   manifest, spine, spine_files, spine_xml_position>>

\* lines 133-141: `if matching_file:` is the truth value of a path or of None
\* (print, here and at line 103, writes to a console that takes the text)
Report ==
    /\ pc = "report"
    /\ printed' =
         IF result.outcome = "address" /\ result.file_path # <<>>
         THEN printed \o
              <<"Matching file: " \o JoinSlash(result.file_path),
                "Spine index: " \o ToString(spine_xml_position[1]) \o "/"
                    \o ToString(result.spine_idx),
                "File index: " \o result.file_index,
                "Element path: " \o result.element_path,
                "Match start: " \o ToString(result.match_start),
                "Match end: " \o ToString(result.match_end)>>
         ELSE Append(printed, "Query not found.")
    /\ pc' = "cleanup"
    /\ UNCHANGED <<staging, fs, package_children, query, content_opf_path,
                   manifest, spine, spine_files, spine_xml_position, result,
                   error>>

\* line 108: the `with` statement is left, by its end or by an exception
Cleanup ==
    /\ pc = "cleanup"
    /\ staging' = ExitStaging(staging, error)
    /\ pc' = IF error = None THEN "returned" ELSE "raised"
    /\ UNCHANGED <<fs, package_children, query, content_opf_path, manifest,
                   spine, spine_files, spine_xml_position, result, error,
                   printed>>

\* lines 8-12, extract_epub_to_temp: the directory is created and the archive
\* extracted into it, with no `with` statement.  The TemporaryDirectory object
\* is returned, or an exception of lines 10-11 leaves the function; either
\* way the directory is still there.
ExtractEpubToTemp ==
    /\ pc = "extract_epub_to_temp"
    /\ \E made \in TempOutcomes, zip \in ZipOutcomes :
        IF made # "none"
        THEN /\ error' = Raised(made, "tempdir")
             /\ pc' = "stager_raised"
             /\ UNCHANGED <<staging, result>>
        ELSE IF zip = "none"
        THEN /\ staging' = "held"
             /\ result' = [outcome |-> "value", value |-> TempDir]
             /\ pc' = "stager_returned"
             /\ UNCHANGED error
        ELSE /\ staging' = "held"
             /\ error' = Raised(zip, "epub_path")
             /\ pc' = "stager_raised"
             /\ UNCHANGED result
    /\ UNCHANGED <<fs, package_children, query, content_opf_path, manifest,
                   spine, spine_files, spine_xml_position, printed>>

\* line 9: a TemporaryDirectory object that nothing refers to any more is
\* collected, and its finalizer removes the directory
CollectTemporaryDirectory ==
    /\ pc \in {"stager_returned", "stager_raised"}
    /\ staging = "held"
    /\ staging' = "released"
    /\ pc' = "stager_collected"
    /\ UNCHANGED <<fs, package_children, query, content_opf_path, manifest,
                   spine, spine_files, spine_xml_position, result, error,
                   printed>>

Next ==
    \/ ExtractEpubToTemp
    \/ CollectTemporaryDirectory
    \/ Acquire
    \/ Extract
    \/ FindContentOpf
    \/ ParseContentOpf
    \/ MapSpineToFiles
    \/ GetSpineXmlPosition
    \/ Traverse
    \/ Report
    \/ Cleanup

Spec == Init /\ [][Next]_vars

\* the stages run one after the other to the end: nothing suspends them
FairSpec == Spec /\ WF_vars(Next)

\* ------------------------------------------------------------- the text
\* locator alone, on bounded inputs
CharTexts == {<<c>> : c \in Chars}

\* one document of any shape, with one-character texts
TreeFiles == Readable(DocsUpTo(TagNames, CharTexts, MaxNodes))

\* one text node, bare or inside one element, with texts of any length
StringFiles ==
    Readable({<<[depth |-> 1, name |-> TextNode, text |-> t]>> : t \in Texts}
        \cup {<<[depth |-> 1, name |-> "div", text |-> <<>>],
                [depth |-> 2, name |-> TextNode, text |-> t]>> : t \in Texts})

\* the small documents of a spine of several files
SpineFiles ==
    Readable(DocsUpTo({"div"}, CharTexts, MaxNodes - 2)) \cup Unreadable

FilesFor(n) == IF n <= 1 THEN TreeFiles \cup StringFiles \cup Unreadable
               ELSE SpineFiles

InitTrace ==
    /\ pc = "traverse"
    /\ staging = "held"
    /\ query \in Queries
    /\ \E n \in 0..MaxSpine :
        \E sf \in [1..n -> DocPaths] :
          \E d \in [Range(sf) -> FilesFor(n)] :
            /\ spine_files = sf
            /\ fs = [p \in DocPaths |-> IF p \in Range(sf) THEN d[p] ELSE Missing]
    /\ package_children = [failure |-> "none", has_package |-> FALSE, children |-> <<>>]
    /\ content_opf_path = PathJoin(TempDir, FullPath)
    /\ manifest = <<>>
    /\ spine = <<>>
    /\ spine_xml_position = NoPosition
    /\ result = None
    /\ error = None
    /\ printed = <<>>

NextTrace == Traverse

SpecTrace == InitTrace /\ [][NextTrace]_vars

\* ------------------------------------------------------------- the spine
\* position alone, on bounded inputs
InitPos ==
    /\ pc = "get_spine_xml_position"
    /\ staging = "held"
    /\ package_children \in PackageTrees
    /\ query = <<"a">>
    /\ fs = [p \in DocPaths |-> Missing]
    /\ content_opf_path = PathJoin(TempDir, FullPath)
    /\ manifest = <<>>
    /\ spine = <<>>
    /\ spine_files = <<>>
    /\ spine_xml_position = NoPosition
    /\ result = None
    /\ error = None
    /\ printed = <<>>

NextPos == GetSpineXmlPosition

SpecPos == InitPos /\ [][NextPos]_vars

\* ------------------------------------------------------------- properties
\* What the properties say is stated on the documents themselves, not through
\* the operators of the locator.

\* the text node i of doc holds q as a contiguous substring
NodeHolds(doc, i, q) ==
    /\ doc[i].name = TextNode
    /\ \E off \in 0..(Len(doc[i].text) - Len(q)) :
          \A c \in 1..Len(q) : doc[i].text[off + c] = q[c]

FileHolds(file, q) == \E i \in DOMAIN file.nodes : NodeHolds(file.nodes, i, q)

AllReadable == \A k \in DOMAIN spine_files : fs[spine_files[k]].readable

Scanned == pc \in {"report", "cleanup", "returned", "raised"}

Located == result.outcome = "address"

MatchedDoc == fs[result.file_path].nodes

MatchedText == MatchedDoc[result.node].text

\* j is an ancestor element of node i: it comes before i, is shallower, and
\* nothing between them is as shallow as j
IsAncestor(doc, j, i) ==
    /\ j < i
    /\ doc[j].depth < doc[i].depth
    /\ \A k \in (j + 1)..i : doc[k].depth > doc[j].depth

AncestorAtDepth(doc, i, d) ==
    CHOOSE j \in 1..i : IsAncestor(doc, j, i) /\ doc[j].depth = d

\* s is an earlier sibling of a with a's tag name
EarlierSameTagSibling(doc, s, a) ==
    /\ s < a
    /\ doc[s].depth = doc[a].depth
    /\ doc[s].name = doc[a].name
    /\ \A k \in s..a : doc[k].depth >= doc[a].depth

\* the ancestors of text node i from the BeautifulSoup object down to i's
\* parent, each with 1 + the number of its earlier siblings of the same tag
ExpectedSteps(doc, i) ==
    [k \in 1..doc[i].depth |->
        IF k = 1 THEN [name |-> DocumentName, position |-> 1]
        ELSE LET a == AncestorAtDepth(doc, i, k - 1)
             IN  [name |-> doc[a].name,
                  position |->
                     1 + Cardinality({s \in 1..a : EarlierSameTagSibling(doc, s, a)})]]

HtmlAncestors(doc, i) ==
    {j \in 1..i : IsAncestor(doc, j, i) /\ doc[j].name = "html"}

Ordinals(steps) == [k \in DOMAIN steps |-> steps[k].position]

NotHtml(step) == step.name # "html"

\* s without its k-th entry
WithoutEntry(s, k) ==
    [j \in 1..(Len(s) - 1) |-> IF j < k THEN s[j] ELSE s[j + 1]]

SpansNodes(file, q) ==
    /\ file.readable
    /\ ~FileHolds(file, q)
    /\ \E off \in 0..(Len(TextFrom(file.nodes, 1)) - Len(q)) :
          SubSeq(TextFrom(file.nodes, 1), off + 1, off + Len(q)) = q

\* C1: a reported address is the first match in reading order: spine_index is
\* the position of the earliest spine document with a text node holding the
\* query, matched_file is its path, the matched node is that document's first
\* text node holding the query, spine_total is the length of the spine, and
\* 1 <= spine_index <= spine_total.
FirstMatchInReadingOrder ==
    Located =>
        /\ result.total = Len(spine_files)
        /\ 1 <= result.spine_idx /\ result.spine_idx <= result.total
        /\ FileHolds(fs[spine_files[result.spine_idx]], query)
        /\ \A k \in 1..(result.spine_idx - 1) : ~FileHolds(fs[spine_files[k]], query)
        /\ result.file_path = spine_files[result.spine_idx]
        /\ NodeHolds(MatchedDoc, result.node, query)
        /\ \A i \in 1..(result.node - 1) : ~NodeHolds(MatchedDoc, i, query)

\* the first of two documents matches in two text nodes, the second document
\* matches too, and the first node of the first document is reported
FirstMatchWitness ==
    /\ Located
    /\ Len(spine_files) = 2
    /\ spine_files[1] # spine_files[2]
    /\ result.spine_idx = 1
    /\ FileHolds(fs[spine_files[2]], query)
    /\ \E i \in DOMAIN MatchedDoc : i > result.node /\ NodeHolds(MatchedDoc, i, query)

\* a match in the second document after a first document without one
SecondDocumentWitness ==
    /\ Located
    /\ result.spine_idx = 2
    /\ fs[spine_files[1]].nodes # <<>>

\* C2: match_start is the offset of the first occurrence of the query in the
\* matched text node, match_end is match_start + the length of the query,
\* 0 <= match_start < match_end <= the length of the text, and the slice
\* [match_start, match_end) of the text is the query.
OffsetsOfFirstOccurrence ==
    Located =>
        /\ 0 <= result.match_start
        /\ result.match_start < result.match_end
        /\ result.match_end <= Len(MatchedText)
        /\ result.match_end = result.match_start + Len(query)
        /\ \A c \in 1..Len(query) : MatchedText[result.match_start + c] = query[c]
        /\ \A off \in 0..(result.match_start - 1) :
              \E c \in 1..Len(query) : MatchedText[off + c] # query[c]

\* the query occurs twice in the matched text
OffsetsWitness ==
    /\ Located
    /\ Len(MatchedText) > Len(query)
    /\ \E off \in (result.match_start + 1)..(Len(MatchedText) - Len(query)) :
          \A c \in 1..Len(query) : MatchedText[off + c] = query[c]

\* C3 as stated: index_path always has one step less than element_path.
IndexPathOneShorter ==
    Located => Len(result.index) = Len(result.steps) - 1

\* C3 as amended: index_path has as many steps less than element_path as the
\* matched text node has ancestors named html.
IndexPathShorterByHtmlAncestors ==
    Located =>
        Len(result.index) =
            Len(result.steps) - Cardinality(HtmlAncestors(MatchedDoc, result.node))

\* an html element nested below the outermost html element: two steps less
NestedHtmlWitness ==
    /\ Located
    /\ Cardinality(HtmlAncestors(MatchedDoc, result.node)) = 2
    /\ Len(result.index) = Len(result.steps) - 2

\* C4 as stated: index_path is the ordinals of element_path without the one
\* step of the root (read as the topmost step, or as the outermost element).
IndexPathDropsRootOnly ==
    Located =>
        \/ result.index = WithoutEntry(Ordinals(result.steps), 1)
        \/ /\ Len(result.steps) >= 2
           /\ result.index = WithoutEntry(Ordinals(result.steps), 2)

\* C4 as amended: index_path is the ordinals of the steps of element_path
\* that are not named html, in the same order; every step named html is left
\* out, at any depth, and no other step is.
IndexPathDropsHtmlSteps ==
    Located => result.index = Ordinals(SelectSeq(result.steps, NotHtml))

\* the outermost element is not html and its ordinal is in index_path, while
\* an html element below it is left out
InnerHtmlWitness ==
    /\ Located
    /\ Len(result.steps) >= 3
    /\ result.steps[2].name = "div"
    /\ result.steps[2].position = 2
    /\ result.steps[3].name = "html"
    /\ result.index[2] = 2

\* C10: element_path lists every ancestor of the matched text node once, from
\* the node without a parent down to the text node's parent, each with the
\* ordinal 1 + the number of its preceding siblings of the same tag name; so
\* every ordinal is at least 1.
ElementPathOfAncestors ==
    Located =>
        /\ result.steps = ExpectedSteps(MatchedDoc, result.node)
        /\ \A k \in DOMAIN result.steps : result.steps[k].position >= 1
        /\ result.element_path =
              JoinSlash([k \in DOMAIN result.steps |-> FormatStep(result.steps[k])])

\* the parent is the second div among its siblings, after a sibling of
\* another tag, and a following sibling exists
ElementPathWitness ==
    /\ Located
    /\ result.node = 4
    /\ Len(MatchedDoc) = 4
    /\ MatchedDoc[1].depth = 1 /\ MatchedDoc[1].name = "div"
    /\ MatchedDoc[2].depth = 1 /\ MatchedDoc[2].name = "html"
    /\ MatchedDoc[3].depth = 1 /\ MatchedDoc[3].name = "div"
    /\ MatchedDoc[4].depth = 2
    /\ result.steps[2] = [name |-> "div", position |-> 2]

\* C7: when every spine document is readable, the scan raises nothing, and it
\* returns not-found (no index, no file, no paths, offsets -1 and -1) exactly
\* when no text node of any spine document holds the query.
NotFoundIffNoTextNodeHolds ==
    (Scanned /\ AllReadable) =>
        /\ error = None
        /\ result.outcome \in {"address", "not_found"}
        /\ (result.outcome = "not_found") <=>
              (\A k \in DOMAIN spine_files : ~FileHolds(fs[spine_files[k]], query))
        /\ (result.outcome = "not_found") =>
              /\ DOMAIN result = {"outcome", "match_start", "match_end"}
              /\ result.match_start = -1
              /\ result.match_end = -1

\* two readable documents with text, none holding the query
NotFoundWitness ==
    /\ Scanned
    /\ AllReadable
    /\ result.outcome = "not_found"
    /\ Len(spine_files) = 2
    /\ \A k \in DOMAIN spine_files :
          \E i \in DOMAIN fs[spine_files[k]].nodes :
              fs[spine_files[k]].nodes[i].name = TextNode

\* C8: a query that the text nodes of a document hold only across their
\* concatenation, and no text node of any spine document holds alone, is not
\* found.
SpanningQueryNotFound ==
    (/\ Scanned
     /\ AllReadable
     /\ \E k \in DOMAIN spine_files : SpansNodes(fs[spine_files[k]], query)
     /\ \A k \in DOMAIN spine_files : ~FileHolds(fs[spine_files[k]], query))
        => result = NotFound

\* "a<div>b</div>" and the query "ab"
SpanningWitness ==
    /\ Scanned
    /\ result = NotFound
    /\ Len(spine_files) = 1
    /\ Len(fs[spine_files[1]].nodes) = 3
    /\ fs[spine_files[1]].nodes[2].name = "div"
    /\ SpansNodes(fs[spine_files[1]], query)

\* C9: for a package element, get_spine_xml_position returns the position of
\* the first direct child named spine (1-based, in document order) and the
\* number of direct children; without such a child it returns -1 and that
\* number, and raises nothing.  metadata, manifest, spine gives (3, 3).
SpinePositionAmongChildren ==
    (/\ pc # "get_spine_xml_position"
     /\ package_children.failure = "none"
     /\ package_children.has_package) =>
        LET children == package_children.children
            ordinal == spine_xml_position[1]
        IN  /\ error = None
            /\ pc = "traverse"
            /\ spine_xml_position[2] = Len(children)
            /\ IF \E j \in DOMAIN children : children[j] = "spine"
               THEN /\ ordinal \in DOMAIN children
                    /\ children[ordinal] = "spine"
                    /\ \A j \in 1..(ordinal - 1) : children[j] # "spine"
               ELSE ordinal = -1
            /\ children = <<"metadata", "manifest", "spine">>
                  => spine_xml_position = <<3, 3>>

\* two children named spine: the first one counts
SpinePositionWitness ==
    /\ pc = "traverse"
    /\ package_children.children = <<"metadata", "spine", "spine">>
    /\ spine_xml_position = <<2, 3>>

\* the stages that read the staging area
ReadingStages ==
    {"extract", "find_content_opf", "parse_content_opf", "map_spine_to_files",
     "get_spine_xml_position", "traverse"}

Terminated == pc \in {"returned", "raised"}

\* the positions of process_epub
InProcessEpub ==
    pc \in {"start", "report", "cleanup"} \cup ReadingStages \cup {"returned", "raised"}

StagingScoped ==
    /\ pc = "start" => staging = "none"
    /\ pc \in ReadingStages \cup {"report", "cleanup"} => staging = "held"
    /\ Terminated => staging # "held"
    /\ pc = "returned" => staging = "released"
    /\ (Terminated /\ staging = "none") =>
           /\ error.outcome = "raised"
           /\ error.type = "OSError"
           /\ content_opf_path = <<>>

\* the order of the stages
StageRank(stage) ==
    CASE stage = "start" -> 0
      [] stage = "extract" -> 1
      [] stage = "find_content_opf" -> 2
      [] stage = "parse_content_opf" -> 3
      [] stage = "map_spine_to_files" -> 4
      [] stage = "get_spine_xml_position" -> 5
      [] stage = "traverse" -> 6
      [] stage = "report" -> 7
      [] stage = "cleanup" -> 8
      [] stage \in {"returned", "raised"} -> 9

\* C5: in process_epub the staging area is acquired before any stage reads
\* it and is held whenever one does; every step moves process_epub to a later
\* stage and no run stops before it has returned or raised, so every run
\* ends; and at its end, by return or by the exception of any stage, the
\* staging area is released.
StagingReleasedOnEveryExit ==
    /\ [](InProcessEpub => (StagingScoped /\ (Terminated \/ ENABLED Next)))
    /\ [][InProcessEpub => StageRank(pc') > StageRank(pc)]_vars
    /\ [](InProcessEpub => <>(Terminated /\ staging # "held"))

\* the document scan raised on a spine document that is not UTF-8, and the
\* staging area is released
ReleasedAfterFailureWitness ==
    /\ pc = "raised"
    /\ staging = "released"
    /\ error.outcome = "raised"
    /\ error.type = "UnicodeDecodeError"
    /\ spine_files # <<>>

\* extract_epub_to_temp has returned and the staging area is still held
StagerLeavesStagingHeld ==
    /\ pc = "stager_returned"
    /\ staging = "held"

SpineResolved ==
    pc \in {"get_spine_xml_position", "traverse", "report", "cleanup",
            "returned", "raised"}

UnresolvedIds == {k \in DOMAIN spine : spine[k] \notin DOMAIN manifest}

\* C6: when the spine holds an id the manifest does not, the run fails at
\* spine resolution with an error naming the first such id: no spine file
\* list, no scan result and no report are produced, whatever the query and
\* the documents are.
UnresolvedSpineItemIsFatal ==
    (SpineResolved /\ UnresolvedIds # {}) =>
        /\ pc \in {"cleanup", "raised"}
        /\ error.outcome = "raised"
        /\ error.type = "KeyError"
        /\ error.arg = spine[Min(UnresolvedIds)]
        /\ spine_files = <<>>
        /\ result = None
        /\ printed = <<>>

\* the id before the unresolved one resolves to a document holding the query
UnresolvedAfterMatchWitness ==
    /\ pc = "raised"
    /\ Len(spine) = 2
    /\ spine[1] \in DOMAIN manifest
    /\ spine[2] = MissingId
    /\ FileHolds(fs[PathJoin(Dirname(content_opf_path), manifest[spine[1]])], query)
    /\ error = Raised("KeyError", MissingId)
    /\ staging = "released"

====
